---- MODULE Spec2Model ----
(***************************************************************************)
(* Chunk access layer of devlware/cortex over Bigtable:                    *)
(*   - bigtableObjectClient.PutChunks / GetChunks  (src/unnamed/part_000)  *)
(*   - tableClient.ListTables / CreateTable / DeleteTable                  *)
(*                                    (src/pkg/chunk/gcp/table_client.go)  *)
(* GetChunks is modelled at the grain of its goroutines: one page task per *)
(* page of row keys, two buffered channels and the gathering select loop.  *)
(***************************************************************************)
EXTENDS Integers, Sequences, FiniteSets, TLC

\* ------------------------------------------------------------------ bounds
\* Longest batch handed to PutChunks / GetChunks.
MaxInput == 3
\* Page size of the fan-out read.  The repository sets maxRowReads = 100 in a
\* file outside src/; the model scales it down so that paging happens.
maxRowReads == 2
\* The clock of the table client stops here.
MaxNow == 4
\* cfg.TableCacheExpiration, in ticks of that clock.
TableCacheExpiration == 2

\* --------------------------------------------------------------- universe
NoErr == "nil"
ErrNoTable == "no chunk table found for time"
ErrEncode == "encode error"
ErrUnknownRow == "Got row for unknown chunk"
ErrDecode == "decode error"
ErrWrongMetadata == "wrong chunk metadata"
ErrReadRows == "ReadRows error"
ErrCount == "Asked for n chunks for Bigtable, received fewer"
ErrCtx == "context canceled"
ErrApply == "ApplyBulk error"

\* Payloads; BadData is a payload the codec cannot encode.
BadData == "bad"
Payloads == {"d1", "d2"}
\* Start times the schema configuration routes to a chunk table.
RoutableTimes == {1, 2}
\* (fingerprint, start time) of the chunks of the model: three series in the
\* table of time 1, one in the table of time 2, one before the schema starts.
Identities == ({1, 2, 3} \X {1}) \cup ({1} \X {0, 2})

\* A chunk as callers of GetChunks pass it: identity only, nothing decoded.
IdentChunk(fp, from) ==
    [userID |-> "1", fp |-> fp, from |-> from, through |-> from + 1,
     metric |-> "", encoding |-> 0, data |-> ""]

\* A chunk as callers of PutChunks pass it.
FullChunk(fp, from, d) ==
    [userID |-> "1", fp |-> fp, from |-> from, through |-> from + 1,
     metric |-> "series", encoding |-> 1, data |-> d]

\* chunk.Chunk.ExternalKey: a pure function of tenant, fingerprint, time range.
ExternalKey(c) == <<c.userID, c.fp, c.from, c.through>>

\* chunk.SchemaConfig.ChunkTableFor: the table of the period the start time
\* falls in, or an error for a time before the first schema period.
ChunkTableFor(from) ==
    IF from \in RoutableTimes
    THEN [err |-> NoErr, table |-> from]
    ELSE [err |-> ErrNoTable, table |-> 0]

\* chunk.Chunk.Encoded: the bytes of a chunk, metadata then payload.
Encoded(c) ==
    IF c.data = BadData
    THEN [err |-> ErrEncode, buf |-> <<>>]
    ELSE [err |-> NoErr,
          buf |-> <<c.userID, c.fp, c.from, c.through, c.metric, c.encoding, c.data>>]

\* Bytes no chunk encodes to.
Corrupt == <<"garbage">>

\* chunk.Chunk.Decode: parses the bytes, checks them against the identity of
\* the chunk being filled in, and overwrites the chunk with what was parsed.
Decode(c, buf) ==
    IF Len(buf) # 7
    THEN [err |-> ErrDecode, chunk |-> c]
    ELSE IF <<buf[1], buf[2], buf[3], buf[4]>> # ExternalKey(c)
    THEN [err |-> ErrWrongMetadata, chunk |-> c]
    ELSE [err |-> NoErr,
          chunk |-> [userID |-> buf[1], fp |-> buf[2], from |-> buf[3],
                     through |-> buf[4], metric |-> buf[5],
                     encoding |-> buf[6], data |-> buf[7]]]

\* ------------------------------------------------------------------ state
VARIABLES
    rows,        \* the backing store: <<table, row key>> -> bytes of the cell
    batch,       \* argument of PutChunks
    putErr,      \* what PutChunks returned ("none" before it returns)
    applied,     \* the bulk-apply calls PutChunks issued, in order
    input,       \* argument of GetChunks
    mpc,         \* position of the GetChunks caller
    cancelled,   \* ctx.Done() is closed
    pages,       \* the page tasks launched: [table, keys]
    ppc,         \* position of each page task
    pending,     \* rows ReadRows has still to hand to the callback, per page
    received,    \* receivedChunks, per page
    processingErr, \* processingErr, per page
    readErr,     \* err returned by table.ReadRows, per page
    reported,    \* what each page task sent on errs (NoErr: nothing yet)
    outs,        \* buffer of channel outs
    errs,        \* buffer of channel errs
    i,           \* loop counter of the gathering loop
    output,      \* output slice of the gathering loop
    ret,         \* what GetChunks returned
    sentOuts,    \* number of sends on outs so far
    sentErrs,    \* number of sends on errs so far
    tables,      \* Bigtable admin state: table name -> exists, families
    tableInfo,   \* tableClient.tableInfo: the metadata cache
    tableExpiration, \* tableClient.tableExpiration
    cacheEnabled,    \* cfg.TableCacheEnabled
    now,         \* time.Now()
    last,        \* the last table-client call and what it returned
    fetchedAt,   \* when each entry of tableInfo was fetched
    created,     \* the tables CreateTable has returned success for
    deleteErr,   \* what DeleteChunk returned ("pending" before it returns)
    procs,       \* the table-client calls in progress, statement by statement
    shard,       \* argument of the scanner: a shard index
    scanRange,   \* the row-key range the scanner reads for the shard
    probe        \* a row key, as bytes: the hex digits of a fingerprint

objVars == <<rows, batch, putErr, applied, input, mpc, cancelled, pages, ppc,
             pending, received, processingErr, readErr, reported, outs, errs, i,
             output, ret, sentOuts, sentErrs>>
tblVars == <<tables, tableInfo, tableExpiration, cacheEnabled, now, last,
             fetchedAt, created>>
auxVarsButProcs == <<deleteErr, shard, scanRange, probe>>
auxVars == <<deleteErr, procs, shard, scanRange, probe>>
vars == <<objVars, tblVars, auxVars>>

\* ---------------------------------------------------------------- helpers
Min(a, b) == IF a < b THEN a ELSE b

RECURSIVE SeqSum(_)
SeqSum(s) == IF s = <<>> THEN 0 ELSE Head(s) + SeqSum(Tail(s))

Range(s) == {s[x] : x \in DOMAIN s}

\* Sequences over S of length 0..n.
SeqsUpTo(S, n) == UNION {[1..k -> S] : k \in 0..n}

\* An ascending enumeration of a finite set of integers.
RECURSIVE SortedSeq(_)
SortedSeq(S) ==
    IF S = {} THEN <<>>
    ELSE LET m == CHOOSE x \in S : \A y \in S : x <= y
         IN <<m>> \o SortedSeq(S \ {m})

\* The multiset of the elements of a sequence, as element -> count.
BagOfSeq(s) == [e \in Range(s) |-> Cardinality({x \in DOMAIN s : s[x] = e})]


\* ------------------------------------------------- GetChunks: preparation
\* Index of the first chunk of the batch the schema cannot route, 0 if none.
FirstUnroutable(chunks) ==
    LET bad == {x \in DOMAIN chunks : ChunkTableFor(chunks[x].from).err # NoErr}
    IN IF bad = {} THEN 0 ELSE CHOOSE x \in bad : \A y \in bad : x <= y

\* The destination tables of a batch.
TablesOf(chunks) == {ChunkTableFor(chunks[x].from).table : x \in DOMAIN chunks}

\* keys[tableName]: the row keys routed to one table, in input order.
RECURSIVE KeysFor(_, _)
KeysFor(chunks, t) ==
    IF chunks = <<>> THEN <<>>
    ELSE (IF ChunkTableFor(Head(chunks).from).table = t
          THEN <<ExternalKey(Head(chunks))>> ELSE <<>>)
         \o KeysFor(Tail(chunks), t)

\* chunks[tableName]: row key -> requested chunk; a later chunk with the same
\* key replaces an earlier one.
ChunksFor(chunks, t) ==
    LET idx == {x \in DOMAIN chunks : ChunkTableFor(chunks[x].from).table = t}
    IN [k \in {ExternalKey(chunks[x]) : x \in idx} |->
          chunks[CHOOSE x \in idx : /\ ExternalKey(chunks[x]) = k
                                    /\ \A y \in idx : ExternalKey(chunks[y]) = k => y <= x]]

\* The pages of one table: keys[i:min(i+maxRowReads, len(keys))] for
\* i = 0, maxRowReads, 2*maxRowReads, ...
RECURSIVE PagesFromOff(_, _, _)
PagesFromOff(keys, t, off) ==
    IF off >= Len(keys) THEN <<>>
    ELSE <<[table |-> t, keys |-> SubSeq(keys, off + 1, Min(off + maxRowReads, Len(keys)))]>>
         \o PagesFromOff(keys, t, off + maxRowReads)

\* Mutant: the paging loop runs while i <= len(keys).
RECURSIVE PagesFromInclusive(_, _, _)
PagesFromInclusive(keys, t, off) ==
    IF off > Len(keys) THEN <<>>
    ELSE <<[table |-> t, keys |-> SubSeq(keys, off + 1, Min(off + maxRowReads, Len(keys)))]>>
         \o PagesFromInclusive(keys, t, off + maxRowReads)

PagesFrom(keys, t, off) == PagesFromOff(keys, t, off)

\* All page tasks of a call, table after table.
RECURSIVE PagesOfTables(_, _)
PagesOfTables(chunks, ts) ==
    IF ts = <<>> THEN <<>>
    ELSE PagesFrom(KeysFor(chunks, Head(ts)), Head(ts), 0) \o PagesOfTables(chunks, Tail(ts))

LaunchPages(chunks) == PagesOfTables(chunks, SortedSeq(TablesOf(chunks)))

\* Mutant: the channels are sized to one page, not to the whole request.
ChanCapPage(chunks) == Min(maxRowReads, Len(chunks))

\* Capacity of outs and of errs: make(chan ..., len(input)).
ChanCap(chunks) == Len(chunks)

\* The rows table.ReadRows finds for a page: one per distinct requested key
\* that has a row in the table.
RowsFound(store, page) ==
    {k \in Range(page.keys) : <<page.table, k>> \in DOMAIN store}

\* A row key no chunk of the model has.
StrayKey == <<"?", 0, 0, 0>>

Nil == <<>>
NotReturned == [chunks |-> Nil, err |-> "pending"]

\* ---------------------------------------------------- GetChunks: the call
\* Lines 95-161: group the input by table, make the channels, launch one page
\* task per page.  A routing error returns before anything is launched; an
\* empty input skips the gathering loop.
GetChunksStart ==
    /\ mpc = "idle"
    /\ IF FirstUnroutable(input) # 0
       THEN /\ mpc' = "done"
            /\ ret' = [chunks |-> Nil, err |-> ErrNoTable]
            /\ UNCHANGED <<pages, ppc, pending, received, processingErr, readErr,
                           reported>>
       ELSE LET ps == LaunchPages(input)
            IN /\ pages' = ps
               /\ ppc' = [p \in DOMAIN ps |-> "read"]
               /\ pending' = [p \in DOMAIN ps |-> RowsFound(rows, ps[p])]
               /\ received' = [p \in DOMAIN ps |-> 0]
               /\ processingErr' = [p \in DOMAIN ps |-> NoErr]
               /\ readErr' = [p \in DOMAIN ps |-> NoErr]
               /\ reported' = [p \in DOMAIN ps |-> NoErr]
               /\ IF Len(input) = 0
                  THEN mpc' = "done" /\ ret' = [chunks |-> <<>>, err |-> NoErr]
                  ELSE mpc' = "gather" /\ ret' = ret
    /\ outs' = <<>> /\ errs' = <<>> /\ i' = 0 /\ output' = <<>>
    /\ sentOuts' = 0 /\ sentErrs' = 0
    /\ UNCHANGED <<rows, batch, putErr, applied, input, cancelled, tblVars, auxVars>>

pageFrame == <<rows, batch, putErr, applied, input, mpc, cancelled, pages,
               i, output, ret, tblVars, auxVars>>

\* Mutant: the callback fills in the next chunk of the page, by position.
RowCallbackByPosition(p, key, value) ==
    LET chunks == ChunksFor(input, pages[p].table)
        at == received[p] + 1
    IN IF at > Len(pages[p].keys)
       THEN /\ processingErr' = [processingErr EXCEPT ![p] = ErrUnknownRow]
            /\ ppc' = [ppc EXCEPT ![p] = "report"]
            /\ UNCHANGED <<received, outs, sentOuts>>
       ELSE LET d == Decode(chunks[pages[p].keys[at]], value)
            IN IF d.err # NoErr
               THEN /\ processingErr' = [processingErr EXCEPT ![p] = d.err]
                    /\ ppc' = [ppc EXCEPT ![p] = "report"]
                    /\ UNCHANGED <<received, outs, sentOuts>>
               ELSE /\ Len(outs) < ChanCap(input)
                    /\ received' = [received EXCEPT ![p] = @ + 1]
                    /\ outs' = Append(outs, d.chunk)
                    /\ sentOuts' = sentOuts + 1
                    /\ UNCHANGED <<processingErr, ppc>>

\* Lines 135-149: the callback ReadRows runs for one row.
RowCallback(p, key, value) ==
    LET chunks == ChunksFor(input, pages[p].table)
    IN IF key \notin DOMAIN chunks
       THEN /\ processingErr' = [processingErr EXCEPT ![p] = ErrUnknownRow]
            /\ ppc' = [ppc EXCEPT ![p] = "report"]
            /\ UNCHANGED <<received, outs, sentOuts>>
       ELSE LET d == Decode(chunks[key], value)
            IN IF d.err # NoErr
               THEN /\ processingErr' = [processingErr EXCEPT ![p] = d.err]
                    /\ ppc' = [ppc EXCEPT ![p] = "report"]
                    /\ UNCHANGED <<received, outs, sentOuts>>
               ELSE /\ Len(outs) < ChanCap(input)
                    /\ received' = [received EXCEPT ![p] = @ + 1]
                    /\ outs' = Append(outs, d.chunk)
                    /\ sentOuts' = sentOuts + 1
                    /\ UNCHANGED <<processingErr, ppc>>

\* ReadRows hands the callback one of the rows it found, in any order.
ReadRow(p) ==
    /\ ppc[p] = "read"
    /\ \E k \in pending[p] :
         /\ RowCallback(p, k, rows[<<pages[p].table, k>>])
         /\ pending' = [pending EXCEPT ![p] = @ \ {k}]
    /\ UNCHANGED <<readErr, reported, errs, sentErrs, pageFrame>>

\* ReadRows hands the callback a row nobody asked for.
ReadStrayRow(p) ==
    /\ ppc[p] = "read"
    /\ RowCallback(p, StrayKey, Corrupt)
    /\ UNCHANGED <<pending, readErr, reported, errs, sentErrs, pageFrame>>

\* ReadRows returns nil after the last row.
ReadRowsEnd(p) ==
    /\ ppc[p] = "read"
    /\ pending[p] = {}
    /\ ppc' = [ppc EXCEPT ![p] = "report"]
    /\ UNCHANGED <<pending, received, processingErr, readErr, reported, outs,
                   errs, sentOuts, sentErrs, pageFrame>>

\* ReadRows returns an error: before, between or after the rows.
ReadRowsFail(p) ==
    /\ ppc[p] = "read"
    /\ readErr' = [readErr EXCEPT ![p] = ErrReadRows]
    /\ ppc' = [ppc EXCEPT ![p] = "report"]
    /\ UNCHANGED <<pending, received, processingErr, reported, outs, errs,
                   sentOuts, sentErrs, pageFrame>>

\* Mutant: the page task forgets the count check of line 156.
PageErrorNoCount(perr, rerr, got, asked) ==
    IF perr # NoErr THEN perr
    ELSE IF rerr # NoErr THEN rerr
    ELSE NoErr

\* Lines 152-158: what the page task sends on errs, NoErr for nothing.
PageError(perr, rerr, got, asked) ==
    IF perr # NoErr THEN perr
    ELSE IF rerr # NoErr THEN rerr
    ELSE IF got < asked THEN ErrCount
    ELSE NoErr

PageReport(p) ==
    /\ ppc[p] = "report"
    /\ LET e == PageError(processingErr[p], readErr[p], received[p], Len(pages[p].keys))
       IN IF e = NoErr
          THEN UNCHANGED <<errs, sentErrs, reported>>
          ELSE /\ Len(errs) < ChanCap(input)
               /\ errs' = Append(errs, e)
               /\ reported' = [reported EXCEPT ![p] = e]
               /\ sentErrs' = sentErrs + 1
    /\ ppc' = [ppc EXCEPT ![p] = "done"]
    /\ UNCHANGED <<pending, received, processingErr, readErr, outs, sentOuts, pageFrame>>

\* Mutant: the select has no ctx.Done() case.
ReadyCasesNoCtx(o, e, done) ==
    (IF o # <<>> THEN {"outs"} ELSE {})
    \cup (IF e # <<>> THEN {"errs"} ELSE {})

\* Mutant: the select has no errs case.
ReadyCasesNoErrs(o, e, done) ==
    (IF o # <<>> THEN {"outs"} ELSE {})
    \cup (IF done THEN {"ctx"} ELSE {})

\* The cases of the select of lines 165-172 that can proceed.
ReadyCases(o, e, done) ==
    (IF o # <<>> THEN {"outs"} ELSE {})
    \cup (IF e # <<>> THEN {"errs"} ELSE {})
    \cup (IF done THEN {"ctx"} ELSE {})

\* Mutant: the loop hands back what it gathered so far with the error.
ErrorReturnPartial(out, e) == [chunks |-> out, err |-> e]

\* What GetChunks hands back when the loop stops on an error.
ErrorReturn(out, e) == [chunks |-> Nil, err |-> e]

\* Mutant: the loop gathers one result per page task.
LoopBoundPages(chunks) == Len(LaunchPages(chunks))

\* Line 164: the gathering loop runs len(input) times.
LoopBound(chunks) == Len(chunks)

\* Lines 163-175: one iteration of the gathering loop; select takes any case
\* that can proceed.  The iteration that receives the last chunk returns.
Gather ==
    /\ mpc = "gather"
    /\ i < LoopBound(input)
    /\ \E c \in ReadyCases(outs, errs, cancelled) :
         CASE c = "outs" ->
                /\ output' = Append(output, Head(outs))
                /\ outs' = Tail(outs)
                /\ i' = i + 1
                /\ IF i + 1 < LoopBound(input)
                   THEN UNCHANGED <<mpc, ret>>
                   ELSE /\ mpc' = "done"
                        /\ ret' = [chunks |-> Append(output, Head(outs)), err |-> NoErr]
                /\ UNCHANGED errs
           [] c = "errs" ->
                /\ ret' = ErrorReturn(output, Head(errs))
                /\ errs' = Tail(errs)
                /\ mpc' = "done"
                /\ UNCHANGED <<outs, output, i>>
           [] c = "ctx" ->
                /\ ret' = ErrorReturn(output, ErrCtx)
                /\ mpc' = "done"
                /\ UNCHANGED <<outs, errs, output, i>>
    /\ UNCHANGED <<rows, batch, putErr, applied, input, cancelled, pages, ppc,
                   pending, received, processingErr, readErr, reported, sentOuts,
                   sentErrs, tblVars, auxVars>>

\* The caller cancels the context, or its deadline passes.
Cancel ==
    /\ ~cancelled
    /\ mpc \in {"idle", "gather"}
    /\ cancelled' = TRUE
    /\ UNCHANGED <<rows, batch, putErr, applied, input, mpc, pages, ppc, pending,
                   received, processingErr, readErr, reported, outs, errs, i,
                   output, ret, sentOuts, sentErrs, tblVars, auxVars>>

PageStep(p) ==
    \/ ReadRow(p)
    \/ ReadStrayRow(p)
    \/ ReadRowsEnd(p)
    \/ ReadRowsFail(p)
    \/ PageReport(p)

\* ------------------------------------------------ GetChunks: specification
\* The batches GetChunks is called with: any sequence of identities, repeats
\* and unroutable chunks included.
GetInputs == SeqsUpTo({IdentChunk(x[1], x[2]) : x \in Identities}, MaxInput)

RoutedKeys(chunks) ==
    {<<ChunkTableFor(chunks[x].from).table, ExternalKey(chunks[x])>> :
        x \in {y \in DOMAIN chunks : ChunkTableFor(chunks[y].from).err = NoErr}}

\* What a row written by PutChunks holds for a key.
GoodRow(tk) == Encoded(FullChunk(tk[2][2], tk[2][3], "d1")).buf

\* The stores a call runs against: every requested row present and sound, or
\* all but one, which is missing or holds bytes that do not decode.
Stores(chunks) ==
    LET ks == RoutedKeys(chunks)
    IN {[tk \in ks |-> GoodRow(tk)]}
       \cup {[tk \in ks \ {m} |-> GoodRow(tk)] : m \in ks}
       \cup {[tk \in ks |-> IF tk = m THEN Corrupt ELSE GoodRow(tk)] : m \in ks}

TblIdle ==
    /\ tables = <<>>
    /\ tableInfo = <<>>
    /\ tableExpiration = 0
    /\ cacheEnabled = FALSE
    /\ now = 0
    /\ last = <<>>
    /\ fetchedAt = <<>>
    /\ created = {}

AuxIdle ==
    /\ deleteErr = "pending"
    /\ procs = <<>>
    /\ shard = 0
    /\ scanRange = <<>>
    /\ probe = <<>>

ObjIdle ==
    /\ mpc = "idle"
    /\ pages = <<>> /\ ppc = <<>> /\ pending = <<>> /\ received = <<>>
    /\ processingErr = <<>> /\ readErr = <<>> /\ reported = <<>>
    /\ outs = <<>> /\ errs = <<>> /\ i = 0 /\ output = <<>>
    /\ ret = NotReturned
    /\ sentOuts = 0 /\ sentErrs = 0

Init ==
    /\ input \in GetInputs
    /\ rows \in Stores(input)
    /\ cancelled = FALSE
    /\ batch = <<>> /\ putErr = "pending" /\ applied = <<>>
    /\ ObjIdle
    /\ TblIdle
    /\ AuxIdle

Next ==
    \/ GetChunksStart
    \/ Gather
    \/ Cancel
    \/ \E p \in DOMAIN pages : ReadRow(p)
    \/ \E p \in DOMAIN pages : ReadStrayRow(p)
    \/ \E p \in DOMAIN pages : ReadRowsEnd(p)
    \/ \E p \in DOMAIN pages : ReadRowsFail(p)
    \/ \E p \in DOMAIN pages : PageReport(p)

Spec == Init /\ [][Next]_vars

\* ----------------------------------------------------- GetChunks: claims
Returned == mpc = "done"
Routable == FirstUnroutable(input) = 0
CeilDiv(a, b) == (a + b - 1) \div b
PageDelivered(p) == received[p] = Len(pages[p].keys)

\* C1: GetChunks is all-or-nothing.  Whatever the batch and the interleaving
\* of page tasks, it returns a nil error with exactly len(input) chunks, or
\* an error with a nil slice; never a short slice with a nil error, never
\* chunks with an error.
C1_AllOrNothing ==
    Returned =>
        \/ ret.err = NoErr /\ Len(ret.chunks) = Len(input)
        \/ ret.err # NoErr /\ ret.chunks = Nil

\* The loop had gathered chunks when an error or the cancellation ended it.
C1_Witness ==
    /\ Returned /\ ret.err # NoErr /\ output # <<>> /\ ret.chunks = Nil

\* C2: when a requested key has no row in the store, GetChunks never returns
\* a nil error, in any order of the page tasks; and a page that got fewer
\* rows than it asked for, with no other failure, reports the count mismatch.
C2_MissingKeyIsError ==
    (\E tk \in RoutedKeys(input) : tk \notin DOMAIN rows) =>
        /\ Returned => ret.err # NoErr
        /\ \A p \in DOMAIN pages :
              (/\ ppc[p] = "done" /\ ~PageDelivered(p)
               /\ processingErr[p] = NoErr /\ readErr[p] = NoErr)
              => reported[p] = ErrCount

\* The call returned the count mismatch of a page whose row was missing,
\* after chunks of the rows that exist had been gathered, with no cancellation.
C2_Witness ==
    /\ \E tk \in RoutedKeys(input) : tk \notin DOMAIN rows
    /\ ~cancelled /\ Returned /\ ret.err = ErrCount /\ output # <<>>

\* C3 as stated: a call whose context was cancelled before the gathering loop
\* finished returns the context's error, never nil and never a page error.
C3_CancelWins ==
    (Returned /\ cancelled /\ Routable /\ Len(input) > 0) => ret.err = ErrCtx

\* C3 amended: cancellation has no priority in the select.  With the context
\* cancelled the ctx.Done() case is ready in every iteration, so the loop
\* never waits; it is certain to return the context's error only when neither
\* channel holds a value at that iteration.
C3_CancelNeverWaits ==
    [][(mpc = "gather" /\ cancelled) =>
          /\ "ctx" \in ReadyCases(outs, errs, cancelled)
          /\ (outs = <<>> /\ errs = <<>> /\ <<mpc, i>>' # <<mpc, i>>)
                => (mpc' = "done" /\ ret' = [chunks |-> Nil, err |-> ErrCtx])]_vars

\* The loop returned the context's error while page tasks were still reading.
C3_Witness ==
    /\ Returned /\ cancelled /\ ret.err = ErrCtx /\ sentOuts = 0 /\ sentErrs = 0
    /\ \E p \in DOMAIN pages : ppc[p] = "read" /\ pending[p] # {}

\* C5 as stated: once a page task has sent an error on errs, the call does
\* not return a nil error.
C5_AnyPageErrorAborts ==
    [][(mpc = "gather" /\ mpc' = "done" /\ sentErrs > 0) => ret'.err # NoErr]_vars

\* C5 amended: the first error the gathering loop receives aborts the call,
\* which returns that error and no chunks.  An error still waiting on errs
\* can lose the race against len(input) buffered chunks, but only an error of
\* a page that had delivered all its rows: a nil error is returned only if
\* every page delivered every row it asked for.
C5_FirstReceivedErrorAborts ==
    /\ [][(mpc = "gather" /\ Len(errs') < Len(errs))
            => (mpc' = "done" /\ ret' = [chunks |-> Nil, err |-> Head(errs)])]_vars
    /\ []((Returned /\ ret.err = NoErr) => \A p \in DOMAIN pages : PageDelivered(p))

\* A page failed in its callback, chunks of other rows were gathered, and
\* the call returned that page's error with no chunks.
C5_Witness ==
    /\ Returned /\ ~cancelled /\ output # <<>> /\ ret.chunks = Nil
    /\ \E p \in DOMAIN pages : processingErr[p] # NoErr /\ ret.err = processingErr[p]

\* C6: no page task ever blocks on a send.  At most len(input) chunks and at
\* most len(input) errors are ever sent, a page about to send finds room in
\* the buffer, and a page that is not finished can always take a step, also
\* after the gathering loop has returned.
C6_NoBlockedSend ==
    /\ sentOuts <= Len(input)
    /\ sentErrs <= Len(input)
    /\ \A p \in DOMAIN pages :
          /\ (ppc[p] = "read" /\ pending[p] # {}) => Len(outs) < ChanCap(input)
          /\ ppc[p] = "report" => Len(errs) < ChanCap(input)
          /\ ppc[p] # "done" => ENABLED PageStep(p)

\* The loop stopped on an error and receives no more; the page tasks still
\* sent every chunk and finished, one of them also its error.
C6_Witness ==
    /\ Returned /\ ret.err # NoErr /\ output = <<>>
    /\ Len(input) = MaxInput /\ Len(outs) = Len(input) /\ errs # <<>>
    /\ Len(pages) > 1 /\ \A p \in DOMAIN pages : ppc[p] = "done"

\* C7 as stated: the number of page tasks is ceil(total keys / maxRowReads).
C7_PagesOfTotal ==
    (mpc # "idle" /\ Routable) => Len(pages) = CeilDiv(Len(input), maxRowReads)

\* C7 amended: paging is per table.  The number of page tasks is the sum,
\* over the destination tables, of ceil(keys of the table / maxRowReads);
\* it is ceil(total keys / maxRowReads) when one table holds all the keys.
C7_PagesPerTable ==
    (mpc # "idle" /\ Routable) =>
        /\ Len(pages) = SeqSum([x \in DOMAIN SortedSeq(TablesOf(input)) |->
                CeilDiv(Len(KeysFor(input, SortedSeq(TablesOf(input))[x])), maxRowReads)])
        /\ Cardinality(TablesOf(input)) = 1
              => Len(pages) = CeilDiv(Len(input), maxRowReads)
        /\ \A p \in DOMAIN pages : Len(pages[p].keys) \in 1..maxRowReads
        /\ SeqSum([p \in DOMAIN pages |-> Len(pages[p].keys)]) = Len(input)

\* One table, more keys than a page holds: a full page and a rest page.
C7_Witness ==
    /\ mpc # "idle" /\ Routable /\ Cardinality(TablesOf(input)) = 1
    /\ Len(input) > maxRowReads /\ Len(pages) = 2

\* ------------------------------------------------------ GetChunks: liveness
PageStepOf(p) == p \in DOMAIN pages /\ PageStep(p)

\* Batches up to a renaming of the series: a fingerprint appears in a batch
\* only after every smaller fingerprint has.
InOrderOfAppearance(chunks) ==
    \A x \in DOMAIN chunks :
        \A f \in 1..(chunks[x].fp - 1) : \E y \in 1..(x - 1) : chunks[y].fp = f

LiveInit ==
    /\ input \in {s \in GetInputs : InOrderOfAppearance(s)}
    /\ rows \in Stores(input)
    /\ cancelled = FALSE
    /\ batch = <<>> /\ putErr = "pending" /\ applied = <<>>
    /\ ObjIdle
    /\ TblIdle
    /\ AuxIdle

\* The caller's goroutine is scheduled: the call starts and its select takes
\* a case whenever one stays ready.  Nothing is assumed of the page tasks.
LiveSpec == LiveInit /\ [][Next]_vars /\ WF_vars(GetChunksStart) /\ WF_vars(Gather)

\* Every page task is scheduled and its ReadRows eventually returns.
PagesFair == \A p \in 1..MaxInput : WF_vars(PageStepOf(p))

\* C4: GetChunks never hangs.  Once the context is cancelled the call returns
\* whether or not any page task takes another step; and if every page task
\* keeps running until its read has returned, the call returns in any case.
C4_NeverHangs ==
    /\ cancelled ~> Returned
    /\ PagesFair => <>Returned

\* The call returned without cancellation after waiting for a page error.
C4_Witness ==
    /\ Returned /\ ~cancelled /\ ret.err = ErrCount /\ output = <<>>
    /\ Len(pages) > 1

\* -------------------------------------------------------------- PutChunks
\* Mutant: the error of the routing is dropped.
PrepareErrorEncodeOnly(chunks) ==
    LET bad == {x \in DOMAIN chunks : Encoded(chunks[x]).err # NoErr}
    IN IF bad = {} THEN NoErr ELSE ErrEncode

\* Lines 63-72: the error of the first chunk that does not encode or does not
\* route, NoErr if every chunk does.  A chunk is encoded before it is routed.
PrepareError(chunks) ==
    LET bad == {x \in DOMAIN chunks :
                   \/ Encoded(chunks[x]).err # NoErr
                   \/ ChunkTableFor(chunks[x].from).err # NoErr}
    IN IF bad = {} THEN NoErr
       ELSE LET x == CHOOSE b \in bad : \A y \in bad : b <= y
            IN IF Encoded(chunks[x]).err # NoErr
               THEN Encoded(chunks[x]).err
               ELSE ChunkTableFor(chunks[x].from).err

\* Mutant: the mutations are collected in one list, not one list per table.
RECURSIVE MutsForUngrouped(_, _)
MutsForUngrouped(chunks, t) ==
    IF chunks = <<>> THEN <<>>
    ELSE <<Encoded(Head(chunks)).buf>> \o MutsForUngrouped(Tail(chunks), t)

\* muts[tableName]: one mutation per chunk routed to the table, setting the
\* cell to the encoded bytes, in input order (lines 75-77).
RECURSIVE MutsForTable(_, _)
MutsForTable(chunks, t) ==
    IF chunks = <<>> THEN <<>>
    ELSE (IF ChunkTableFor(Head(chunks).from).table = t
          THEN <<Encoded(Head(chunks)).buf>> ELSE <<>>)
         \o MutsForTable(Tail(chunks), t)

MutsFor(chunks, t) == MutsForTable(chunks, t)

\* table.ApplyBulk: mutation x is applied to row keys[x], in order, except at
\* the positions that fail.
RECURSIVE ApplyBulk(_, _, _, _, _)
ApplyBulk(store, t, keys, muts, failed) ==
    IF keys = <<>> THEN store
    ELSE LET n == Len(keys)
             before == ApplyBulk(store, t, SubSeq(keys, 1, n - 1),
                                 SubSeq(muts, 1, n - 1), failed)
         IN IF n \in failed THEN before
            ELSE [tk \in DOMAIN before \cup {<<t, keys[n]>>} |->
                     IF tk = <<t, keys[n]>> THEN muts[n] ELSE before[tk]]

\* Lines 80-91: one ApplyBulk per table, in the order the map iteration
\* yields the tables; the first call with an error ends the loop.  failAt is
\* the position in the order of the call that fails (0: none) and failed the
\* rows of that call that were not applied.
RECURSIVE ApplyTables(_, _, _, _, _, _)
ApplyTables(store, chunks, order, at, failAt, failed) ==
    IF at > Len(order) THEN [err |-> NoErr, store |-> store, calls |-> <<>>]
    ELSE LET t == order[at]
             keys == KeysFor(chunks, t)
             muts == MutsFor(chunks, t)
             call == [table |-> t, keys |-> keys, muts |-> muts,
                      err |-> IF at = failAt THEN ErrApply ELSE NoErr]
         IN IF at = failAt
            THEN [err |-> ErrApply,
                  store |-> ApplyBulk(store, t, keys, muts, failed),
                  calls |-> <<call>>]
            ELSE LET rest == ApplyTables(ApplyBulk(store, t, keys, muts, {}),
                                         chunks, order, at + 1, failAt, failed)
                 IN [rest EXCEPT !.calls = <<call>> \o @]

\* Mutant: the loop goes on to the remaining tables after a failed call and
\* returns the error at the end.
ApplyAllKeepGoing(store, chunks, order, failAt, failed) ==
    LET r == ApplyTables(store, chunks, order, 1, failAt, failed)
    IN IF r.err = NoErr THEN r
       ELSE LET rest == ApplyTables(r.store, chunks, order, failAt + 1, 0, {})
            IN [err |-> r.err, store |-> rest.store, calls |-> r.calls \o rest.calls]

\* Lines 80-92, from the first table of the iteration.
ApplyAll(store, chunks, order, failAt, failed) ==
    ApplyTables(store, chunks, order, 1, failAt, failed)

\* The orders a map iteration can yield a set of tables in.
Orders(S) == {o \in [1..Cardinality(S) -> S] : Range(o) = S}

\* PutChunks, whole: failAts are the positions at which the environment may
\* fail a bulk-apply call ({0}: it fails none).
PutChunksWith(failAts) ==
    /\ putErr = "pending"
    /\ IF PrepareError(batch) # NoErr
       THEN /\ putErr' = PrepareError(batch)
            /\ UNCHANGED <<rows, applied>>
       ELSE \E order \in Orders(TablesOf(batch)),
               failAt \in {f \in failAts : f <= Cardinality(TablesOf(batch))} :
              \E failed \in (IF failAt = 0 THEN {{}}
                             ELSE SUBSET (1..Len(KeysFor(batch, order[failAt]))) \ {{}}) :
                 /\ failAt <= Len(order)
                 /\ LET r == ApplyAll(rows, batch, order, failAt, failed)
                    IN /\ putErr' = r.err
                       /\ rows' = r.store
                       /\ applied' = r.calls
    /\ UNCHANGED <<batch, input, mpc, cancelled, pages, ppc, pending, received,
                   processingErr, readErr, reported, outs, errs, i, output, ret,
                   sentOuts, sentErrs, tblVars, auxVars>>

\* ------------------------------------------------- PutChunks then GetChunks
PutChunksOK == PutChunksWith({0})

GetAfterPut == putErr = NoErr /\ GetChunksStart

\* The batches PutChunks is called with: chunks with pairwise distinct
\* external keys.
PutBatches ==
    {s \in SeqsUpTo({FullChunk(x[1], x[2], d) : x \in Identities, d \in Payloads}, MaxInput) :
        \A x, y \in DOMAIN s : ExternalKey(s[x]) = ExternalKey(s[y]) => x = y}

\* The store before the write: empty, or one of the rows already there with
\* bytes of an earlier write that do not decode.
StoresBefore(chunks) ==
    {<<>>} \cup {[tk \in {k} |-> Corrupt] : k \in RoutedKeys(chunks)}

InitRT ==
    /\ batch \in PutBatches
    /\ input = [x \in DOMAIN batch |-> IdentChunk(batch[x].fp, batch[x].from)]
    /\ rows \in StoresBefore(batch)
    /\ cancelled = FALSE
    /\ putErr = "pending" /\ applied = <<>>
    /\ ObjIdle
    /\ TblIdle
    /\ AuxIdle

\* No backing-store call fails and the context is never cancelled.
NextRT ==
    \/ PutChunksOK
    \/ GetAfterPut
    \/ Gather
    \/ \E p \in DOMAIN pages : ReadRow(p)
    \/ \E p \in DOMAIN pages : ReadRowsEnd(p)
    \/ \E p \in DOMAIN pages : PageReport(p)

SpecRT == InitRT /\ [][NextRT]_vars

\* C8: round trip.  For every batch with distinct external keys, with no
\* failing store call and no cancellation, GetChunks on the identities of the
\* batch PutChunks wrote returns a nil error and the chunks written, as a
\* multiset: same tenant, fingerprint, time range, metric, encoding, payload.
C8_RoundTrip ==
    (putErr = NoErr /\ Returned) =>
        /\ ret.err = NoErr
        /\ BagOfSeq(ret.chunks) = BagOfSeq(batch)

\* A full batch over two tables and two pages of one table came back whole,
\* in another order than it was written.
C8_Witness ==
    /\ putErr = NoErr /\ Returned /\ ret.err = NoErr
    /\ Len(batch) = MaxInput /\ Cardinality(TablesOf(batch)) = 2
    /\ ret.chunks # batch /\ Len(ret.chunks) = Len(batch)

\* ------------------------------------------------------------ tableClient
TableNames == {"a", "b"}
\* The column family chunks are stored in, and another one.
columnFamily == "f"
Families == {columnFamily, "x"}
\* tables[name] for a table Bigtable does not have.
NoTable == [exists |-> FALSE, families |-> {}]
\* tables[name] for a table with these column families.
Table(fams) == [exists |-> TRUE, families |-> fams]

ErrTables == "client.Tables"
ErrTableInfo == "client.TableInfo"
ErrCreateTable == "client.CreateTable"
ErrCreateColumnFamily == "client.CreateColumnFamily"
ErrDeleteTable == "client.DeleteTable"

\* gRPC status codes of the admin API's answers.
AlreadyExists == "AlreadyExists"
NotFound == "NotFound"
Unavailable == "Unavailable"

\* Mutant: any column family will do.
hasAnyFamily(infos) == infos # {}

\* Lines 71-78: the table's families include columnFamily.
hasColumnFamily(infos) == columnFamily \in infos

\* Mutant: the cache is kept until the expiration time is reached and past.
cacheExpiredLate(expiration, t) == expiration + 1 < t

\* Line 45: c.tableExpiration.Before(time.Now()).
cacheExpired(expiration, t) == expiration < t

\* Mutant: the cache is consulted also when caching is disabled.
RECURSIVE listLoopIgnoringEnabled(_, _, _, _, _, _)
listLoopIgnoringEnabled(cache, store, enabled, listing, at, failAt) ==
    IF at > Len(listing)
    THEN [err |-> NoErr, cache |-> cache, output |-> <<>>, used |-> <<>>,
          fetched |-> {}, stored |-> {}]
    ELSE LET table == listing[at]
             exists == table \in DOMAIN cache
             fetch == ~exists
             info == IF fetch THEN store[table].families ELSE cache[table]
         IN IF fetch /\ at = failAt
            THEN [err |-> ErrTableInfo, cache |-> cache, output |-> <<>>,
                  used |-> <<>>, fetched |-> {}, stored |-> {}]
            ELSE LET has == hasColumnFamily(info)
                     cache1 == IF has THEN cache
                               ELSE [n \in DOMAIN cache \cup {table} |->
                                        IF n = table THEN info ELSE cache[n]]
                     rest == listLoopIgnoringEnabled(cache1, store, enabled,
                                                     listing, at + 1, failAt)
                 IN [err |-> rest.err,
                     cache |-> rest.cache,
                     output |-> IF rest.err # NoErr THEN <<>>
                                ELSE (IF has THEN <<table>> ELSE <<>>) \o rest.output,
                     used |-> [n \in DOMAIN rest.used \cup {table} |->
                                  IF n = table THEN info ELSE rest.used[n]],
                     fetched |-> rest.fetched \cup (IF fetch THEN {table} ELSE {}),
                     stored |-> rest.stored \cup (IF has THEN {} ELSE {table})]

\* Lines 52-66, from position at of the listing: the cache, the output, the
\* metadata each decision was taken from, the tables fetched and the tables
\* whose cache entry was written.  The fetch at position failAt fails (0:
\* none does).
RECURSIVE listLoop(_, _, _, _, _, _)
listLoop(cache, store, enabled, listing, at, failAt) ==
    IF at > Len(listing)
    THEN [err |-> NoErr, cache |-> cache, output |-> <<>>, used |-> <<>>,
          fetched |-> {}, stored |-> {}]
    ELSE LET table == listing[at]
             exists == table \in DOMAIN cache
             fetch == ~exists \/ ~enabled
             info == IF fetch THEN store[table].families ELSE cache[table]
         IN IF fetch /\ at = failAt
            THEN [err |-> ErrTableInfo, cache |-> cache, output |-> <<>>,
                  used |-> <<>>, fetched |-> {}, stored |-> {}]
            ELSE LET has == hasColumnFamily(info)
                     cache1 == IF has THEN cache
                               ELSE [n \in DOMAIN cache \cup {table} |->
                                        IF n = table THEN info ELSE cache[n]]
                     rest == listLoop(cache1, store, enabled, listing, at + 1, failAt)
                 IN [err |-> rest.err,
                     cache |-> rest.cache,
                     output |-> IF rest.err # NoErr THEN <<>>
                                ELSE (IF has THEN <<table>> ELSE <<>>) \o rest.output,
                     used |-> [n \in DOMAIN rest.used \cup {table} |->
                                  IF n = table THEN info ELSE rest.used[n]],
                     fetched |-> rest.fetched \cup (IF fetch THEN {table} ELSE {}),
                     stored |-> rest.stored \cup (IF has THEN {} ELSE {table})]

Existing == {n \in TableNames : tables[n].exists}

tblFrame == <<objVars, auxVars>>

\* What a call leaves in last: the call, its result, and what it saw.
Called(op, name, err, cacheAfter, storeAfter) ==
    [op |-> op, name |-> name, err |-> err, output |-> <<>>, listed |-> {},
     used |-> <<>>, fetched |-> {}, expired |-> FALSE, before |-> tableExpiration, at |-> now,
     cache |-> cacheAfter, store |-> storeAfter,
     calls |-> <<>>, cacheBefore |-> tableInfo, cachedAt |-> fetchedAt,
     createdBefore |-> created]

\* ListTables, whole (lines 39-69).  Bigtable lists its tables in any order.
ListTables ==
    /\ \E failTables \in BOOLEAN :
         IF failTables
         THEN /\ last' = Called("ListTables", "", ErrTables, tableInfo, tables)
              /\ UNCHANGED <<tableInfo, tableExpiration, fetchedAt>>
         ELSE \E listing \in Orders(Existing), failAt \in 0..Cardinality(Existing) :
                LET expired == cacheExpired(tableExpiration, now)
                    cache0 == IF expired THEN <<>> ELSE tableInfo
                    r == listLoop(cache0, tables, cacheEnabled, listing, 1, failAt)
                IN /\ tableInfo' = r.cache
                   /\ tableExpiration' = IF expired THEN now + TableCacheExpiration
                                         ELSE tableExpiration
                   /\ fetchedAt' = [n \in DOMAIN r.cache |->
                                       IF n \in r.stored THEN now ELSE fetchedAt[n]]
                   /\ last' = [Called("ListTables", "", r.err, r.cache, tables)
                                 EXCEPT !.output = r.output,
                                        !.listed = Range(listing),
                                        !.used = r.used,
                                        !.fetched = r.fetched,
                                        !.expired = expired]
    /\ UNCHANGED <<tables, cacheEnabled, now, created, tblFrame>>

\* client.CreateTable of the admin API (called at line 81): the answer and
\* the tables afterwards.  fail: the call fails for a reason of its own.
adminCreateTable(store, name, fail) ==
    IF fail THEN [err |-> Unavailable, store |-> store]
    ELSE IF store[name].exists THEN [err |-> AlreadyExists, store |-> store]
    ELSE [err |-> NoErr, store |-> [store EXCEPT ![name] = Table({})]]

\* client.CreateColumnFamily of the admin API (called at line 87).
adminCreateColumnFamily(store, name, family, fail) ==
    IF fail THEN [err |-> Unavailable, store |-> store]
    ELSE IF ~store[name].exists THEN [err |-> NotFound, store |-> store]
    ELSE IF family \in store[name].families
         THEN [err |-> AlreadyExists, store |-> store]
    ELSE [err |-> NoErr,
          store |-> [store EXCEPT ![name] = Table(@.families \cup {family})]]

\* Mutant: no answer is recognised as "already exists".
alreadyExistsNever(err) == FALSE

\* Lines 96-99.
alreadyExistsError(err) == err = AlreadyExists

\* CreateTable, whole (lines 80-94): what it returns, the tables afterwards
\* and the admin calls it made with their answers.
createTable(store, name, failTable, failFamily) ==
    LET r1 == adminCreateTable(store, name, failTable)
        c1 == [call |-> "CreateTable", resp |-> r1.err]
    IN IF r1.err # NoErr /\ ~alreadyExistsError(r1.err)
       THEN [err |-> ErrCreateTable, store |-> r1.store, calls |-> <<c1>>]
       ELSE LET r2 == adminCreateColumnFamily(r1.store, name, columnFamily, failFamily)
                c2 == [call |-> "CreateColumnFamily", resp |-> r2.err]
            IN [err |-> IF r2.err # NoErr /\ ~alreadyExistsError(r2.err)
                        THEN ErrCreateColumnFamily ELSE NoErr,
                store |-> r2.store, calls |-> <<c1, c2>>]

CreateTable(name) ==
    /\ \E failTable, failFamily \in BOOLEAN :
         LET r == createTable(tables, name, failTable, failFamily)
         IN /\ tables' = r.store
            /\ created' = IF r.err = NoErr THEN created \cup {name} ELSE created
            /\ last' = [Called("CreateTable", name, r.err, tableInfo, r.store)
                          EXCEPT !.calls = r.calls]
    /\ UNCHANGED <<tableInfo, tableExpiration, fetchedAt, cacheEnabled, now, tblFrame>>

\* Mutant: the entry is evicted before the result of the delete is known.
evictAlways(cache, name, err) == [n \in DOMAIN cache \ {name} |-> cache[n]]

\* Lines 102-105: the cache after DeleteTable, whose admin call answered err.
evictOnDelete(cache, name, err) ==
    IF err # NoErr THEN cache
    ELSE [n \in DOMAIN cache \ {name} |-> cache[n]]

\* DeleteTable, whole (lines 101-108).  Deleting a table that is not there
\* is an error of Bigtable's.
DeleteTable(name) ==
    /\ \E fail \in BOOLEAN :
         LET cause == IF fail THEN Unavailable
                      ELSE IF ~tables[name].exists THEN NotFound ELSE NoErr
             err == IF cause # NoErr THEN ErrDeleteTable ELSE NoErr
             after == IF cause # NoErr THEN tables
                      ELSE [tables EXCEPT ![name] = NoTable]
             cache == evictOnDelete(tableInfo, name, cause)
         IN /\ tables' = after
            /\ tableInfo' = cache
            /\ fetchedAt' = [n \in DOMAIN cache |-> fetchedAt[n]]
            /\ last' = [Called("DeleteTable", name, err, cache, after)
                          EXCEPT !.calls = <<[call |-> "DeleteTable", resp |-> cause]>>]
    /\ UNCHANGED <<tableExpiration, cacheEnabled, now, created, tblFrame>>

\* Time passes.
Tick ==
    /\ now < MaxNow
    /\ now' = now + 1
    /\ UNCHANGED <<tables, tableInfo, tableExpiration, fetchedAt, cacheEnabled,
                   created, last, tblFrame>>

NoCall ==
    [op |-> "", name |-> "", err |-> NoErr, output |-> <<>>, listed |-> {},
     used |-> <<>>, fetched |-> {}, expired |-> FALSE, before |-> 0, at |-> 0,
     cache |-> <<>>, store |-> <<>>,
     calls |-> <<>>, cacheBefore |-> <<>>, cachedAt |-> <<>>,
     createdBefore |-> {}]

\* NewTableClient: an empty cache and the zero time as its expiration; the
\* instance holds any tables already.
InitTable ==
    /\ tables \in [TableNames -> {NoTable, Table({"x"}), Table({columnFamily})}]
    /\ tableInfo = <<>>
    /\ tableExpiration = 0
    /\ fetchedAt = <<>>
    /\ created = {}
    /\ cacheEnabled \in BOOLEAN
    /\ now = 1
    /\ last = NoCall
    /\ rows = <<>> /\ input = <<>> /\ cancelled = FALSE
    /\ batch = <<>> /\ putErr = "pending" /\ applied = <<>>
    /\ ObjIdle
    /\ AuxIdle

NextTable ==
    \/ ListTables
    \/ \E n \in TableNames : CreateTable(n)
    \/ \E n \in TableNames : DeleteTable(n)
    \/ Tick

SpecTable == InitTable /\ [][NextTable]_vars

ListedOK == last.op = "ListTables" /\ last.err = NoErr

\* C9: a successful ListTables never returns a table whose metadata, fetched
\* or cached within the expiration window, lacks the column family, nor one
\* that lacks it in Bigtable; and a call that finds the window elapsed takes
\* no decision from the cache: it fetches the metadata of every table listed.
C9_ListedHaveFamily ==
    ListedOK =>
        /\ \A t \in Range(last.output) :
              /\ columnFamily \in last.used[t]
              /\ last.store[t].exists /\ columnFamily \in last.store[t].families
        /\ last.before < last.at => last.fetched = last.listed

\* With caching on, a later call found the window of an earlier call elapsed,
\* fetched both tables again and returned the one that has the family.
C9_Witness ==
    /\ ListedOK /\ cacheEnabled /\ last.before > 0 /\ last.before < last.at
    /\ last.listed = TableNames /\ last.fetched = TableNames
    /\ Len(last.output) = 1

\* C10 as stated: after a successful ListTables every table Bigtable listed
\* has a cache entry, those that have the column family like those that lack it.
C10_AllListedCached ==
    ListedOK => last.listed \subseteq DOMAIN last.cache

\* ------------------------------------------------------------ CreateTable
\* The answers of the admin calls the last call made, in order.
Responses == [x \in DOMAIN last.calls |-> last.calls[x].resp]
\* The answers CreateTable takes for success.
Accepted == {NoErr, AlreadyExists}

\* C11: CreateTable is idempotent.  An "already exists" answer of either
\* admin step is success and is never what the caller gets; another failure
\* of the create-table step is returned wrapped with no column-family step
\* attempted, another failure of the column-family step is returned wrapped;
\* and a CreateTable right after a successful CreateTable of the same name,
\* with no such failure, succeeds again and leaves the tables as they were.
C11_CreateTableIdempotent ==
    /\ [](last.op = "CreateTable" =>
            /\ last.err \in {NoErr, ErrCreateTable, ErrCreateColumnFamily}
            /\ Len(last.calls) \in {1, 2}
            /\ last.calls[1].call = "CreateTable"
            /\ (\A x \in DOMAIN Responses : Responses[x] \in Accepted)
                  <=> last.err = NoErr
            /\ Responses[1] \notin Accepted
                  <=> (last.err = ErrCreateTable /\ Len(last.calls) = 1)
            /\ (Len(last.calls) = 2 /\ Responses[2] \notin Accepted)
                  <=> last.err = ErrCreateColumnFamily
            /\ last.err = NoErr =>
                  /\ Len(last.calls) = 2
                  /\ last.calls[2].call = "CreateColumnFamily"
                  /\ last.store[last.name].exists
                  /\ columnFamily \in last.store[last.name].families)
    /\ [][(/\ last.op = "CreateTable" /\ last.err = NoErr
            /\ CreateTable(last.name)
            /\ \A x \in DOMAIN last'.calls : last'.calls[x].resp \in Accepted)
           => (last'.err = NoErr /\ tables' = tables)]_vars

\* A second CreateTable of a name succeeded on two "already exists" answers.
C11_Witness ==
    /\ last.op = "CreateTable" /\ last.err = NoErr
    /\ last.name \in last.createdBefore
    /\ Responses = <<AlreadyExists, AlreadyExists>>

\* ------------------------------------------------------------ DeleteTable
\* C12: DeleteTable evicts only on success.  When the delete fails in the
\* backing store the error is returned and the cache, every entry and the
\* shared expiration, is as before the call; when it succeeds the table has
\* no entry and every other entry and the expiration are as before.
C12_EvictOnlyOnSuccess ==
    last.op = "DeleteTable" =>
        /\ tableExpiration = last.before
        /\ IF last.calls[1].resp # NoErr
           THEN /\ last.err = ErrDeleteTable
                /\ tableInfo = last.cacheBefore
                /\ tables = last.store
           ELSE /\ last.err = NoErr
                /\ last.name \notin DOMAIN tableInfo
                /\ DOMAIN tableInfo = DOMAIN last.cacheBefore \ {last.name}
                /\ \A n \in DOMAIN tableInfo : tableInfo[n] = last.cacheBefore[n]

\* A cached table was deleted and the entry of the other table stayed.
C12_Witness ==
    /\ last.op = "DeleteTable" /\ last.err = NoErr
    /\ DOMAIN last.cacheBefore = TableNames
    /\ DOMAIN tableInfo = TableNames \ {last.name}

\* ------------------------------------------------------- cache expiration
\* The tables the last ListTables decided from a cache entry, not a fetch.
FromCache == DOMAIN last.used \ last.fetched
\* The last call is a ListTables whose table listing succeeded.
Listed == last.op = "ListTables" /\ last.err # ErrTables

\* C16: the cache expires wholesale.  A ListTables whose listing succeeded
\* and that found the shared expiration passed leaves only entries it fetched
\* itself and the expiration at now + TableCacheExpiration, also when a
\* metadata fetch fails afterwards; and with caching enabled no decision is
\* taken from an entry fetched before the current window began or more than
\* TableCacheExpiration before the call; with caching disabled none is taken
\* from the cache at all.
C16_WholesaleExpiry ==
    Listed =>
        /\ last.before < last.at =>
              /\ tableExpiration = last.at + TableCacheExpiration
              /\ DOMAIN tableInfo \subseteq last.fetched
              /\ FromCache = {}
        /\ ~(last.before < last.at) =>
              /\ tableExpiration = last.before
              /\ DOMAIN last.cacheBefore \subseteq DOMAIN tableInfo
        /\ ~cacheEnabled => FromCache = {}
        /\ \A n \in FromCache :
              /\ n \in DOMAIN last.cacheBefore
              /\ last.used[n] = last.cacheBefore[n]
              /\ last.cachedAt[n] >= tableExpiration - TableCacheExpiration
              /\ last.at - last.cachedAt[n] <= TableCacheExpiration

\* A decision was taken from an entry exactly TableCacheExpiration old, the
\* last moment of its window.
C16_Witness ==
    /\ Listed /\ last.err = NoErr /\ cacheEnabled
    /\ \E n \in FromCache : last.at - last.cachedAt[n] = TableCacheExpiration

\* ------------------------------------------- CreateTable, then ListTables
\* Table n is in the backing store with the column family at the last call.
Usable(n) == last.store[n].exists /\ columnFamily \in last.store[n].families

\* C19 as stated: after CreateTable(name) has returned success, every later
\* successful ListTables includes name as long as the table is in the backing
\* store with its column family, with caching enabled or disabled and also
\* when an earlier ListTables of the window had seen it without the family.
C19_CreatedIsListed ==
    ListedOK =>
        \A n \in last.createdBefore : Usable(n) => n \in Range(last.output)

\* C19, amended: after CreateTable(name) has returned success, a later
\* successful ListTables includes name if the table is in the backing store
\* with its column family and the call fetches its metadata: caching is
\* disabled, or the call finds the expiration passed, or the cache holds no
\* entry for name.  Otherwise the call decides from the entry.
C19_CreatedIsListedOnceFetched ==
    ListedOK =>
        \A n \in last.createdBefore :
            /\ (/\ Usable(n)
                /\ \/ ~cacheEnabled
                   \/ last.before < last.at
                   \/ n \notin DOMAIN last.cacheBefore)
               => n \in Range(last.output)
            /\ (/\ cacheEnabled /\ ~(last.before < last.at)
                /\ n \in DOMAIN last.cacheBefore /\ n \in last.listed)
               => (n \in Range(last.output)
                     <=> columnFamily \in last.cacheBefore[n])

\* With caching enabled, a table that an earlier ListTables had cached
\* without the family and CreateTable then completed is listed by the first
\* call after the window.
C19_Witness ==
    /\ ListedOK /\ cacheEnabled /\ last.before < last.at
    /\ \E n \in last.createdBefore :
          /\ n \in DOMAIN last.cacheBefore
          /\ n \in Range(last.output)

\* ------------------------------------------------- PutChunks, DeleteChunk
ErrMethodNotImplemented == "not implemented"
\* Chunk IDs DeleteChunk is called with.
ChunkIDs == {"1/1:1:2", "none"}

\* Mutant: the row of the chunk is deleted and nil returned.
DeleteChunkDeletes(chunkID) ==
    /\ deleteErr' = NoErr
    /\ rows' = <<>>
    /\ UNCHANGED <<batch, putErr, applied, input, mpc, cancelled, pages, ppc,
                   pending, received, processingErr, readErr, reported, outs,
                   errs, i, output, ret, sentOuts, sentErrs, tblVars, procs,
                   shard, scanRange, probe>>

\* DeleteChunk, whole (lines 178-181).
DeleteChunk(chunkID) ==
    /\ deleteErr' = ErrMethodNotImplemented
    /\ UNCHANGED <<objVars, tblVars, procs, shard, scanRange, probe>>

\* PutChunks against a backing store whose bulk-apply calls may fail, the
\* first or the second of them, for some of the rows.
PutChunksFaulty == PutChunksWith({0, 1, 2})

\* The batches PutChunks is called with: any chunks, some the codec cannot
\* encode, some the schema cannot route, some twice.
PutInputs ==
    SeqsUpTo({FullChunk(x[1], x[2], d) : x \in Identities, d \in {"d1", BadData}},
             MaxInput)

InitPut ==
    /\ batch \in PutInputs
    /\ rows \in StoresBefore(batch)
    /\ input = <<>>
    /\ cancelled = FALSE
    /\ putErr = "pending" /\ applied = <<>>
    /\ ObjIdle
    /\ TblIdle
    /\ AuxIdle

NextPut ==
    \/ PutChunksFaulty
    \/ \E id \in ChunkIDs : DeleteChunk(id)

SpecPut == InitPut /\ [][NextPut]_vars

\* Some chunk of the batch does not encode or does not route.
Unpreparable(chunks) ==
    \E x \in DOMAIN chunks :
        \/ Encoded(chunks[x]).err # NoErr
        \/ ChunkTableFor(chunks[x].from).err # NoErr

\* The chunks of the batch routed to table t, in input order.
RoutedTo(chunks, t) ==
    LET Goes(c) == ChunkTableFor(c.from).table = t
    IN SelectSeq(chunks, Goes)

\* The step is PutChunks returning.
PutReturns == putErr = "pending" /\ putErr' # "pending"

\* What a bulk-apply call leaves in a row it wrote: the mutation at the last
\* position of the key.
LastWrite(call, key) ==
    LET at == CHOOSE x \in DOMAIN call.keys :
                  /\ call.keys[x] = key
                  /\ \A y \in DOMAIN call.keys : call.keys[y] = key => y <= x
    IN call.muts[at]

\* C13: PutChunks of a batch that encodes and routes issues one bulk-apply
\* per distinct destination table, one after another, each with exactly the
\* keys and mutations of the chunks routed to the table, aligned by position;
\* the first call that reports an error is the last call issued and its
\* error is returned, and the rows written by the calls before it stay
\* written.
C13_OneBulkApplyPerTable ==
    [][(PutReturns /\ ~Unpreparable(batch)) =>
        LET calls == applied'
            n == Len(calls)
        IN /\ \A x, y \in 1..n : calls[x].table = calls[y].table => x = y
           /\ \A x \in 1..n :
                 LET sent == RoutedTo(batch, calls[x].table)
                 IN /\ sent # <<>>
                    /\ Len(calls[x].keys) = Len(sent)
                    /\ Len(calls[x].muts) = Len(sent)
                    /\ \A k \in 1..Len(sent) :
                          /\ calls[x].keys[k] = ExternalKey(sent[k])
                          /\ calls[x].muts[k] = Encoded(sent[k]).buf
           /\ \A x \in 1..(n - 1) : calls[x].err = NoErr
           /\ IF putErr' = NoErr
              THEN /\ {calls[x].table : x \in 1..n} = TablesOf(batch)
                   /\ \A x \in 1..n : calls[x].err = NoErr
              ELSE /\ n >= 1
                   /\ calls[n].err = putErr'
           /\ \A x \in 1..n : calls[x].err = NoErr =>
                 \A k \in DOMAIN calls[x].keys :
                    LET tk == <<calls[x].table, calls[x].keys[k]>>
                    IN /\ tk \in DOMAIN rows'
                       /\ rows'[tk] = LastWrite(calls[x], calls[x].keys[k])
           /\ \A tk \in DOMAIN rows :
                 /\ tk \in DOMAIN rows'
                 /\ (\A x \in 1..n : tk[1] # calls[x].table) => rows'[tk] = rows[tk]
           /\ \A tk \in DOMAIN rows' \ DOMAIN rows :
                 \E x \in 1..n : tk[1] = calls[x].table /\ tk[2] \in Range(calls[x].keys)]_vars

\* The second bulk-apply of a batch over two tables failed: PutChunks
\* returned its error and the rows of the first table are in the store.
C13_Witness ==
    /\ putErr = ErrApply /\ Len(applied) = 2
    /\ Cardinality(TablesOf(batch)) = 2
    /\ \A k \in DOMAIN applied[1].keys :
          <<applied[1].table, applied[1].keys[k]>> \in DOMAIN rows

\* C20: PutChunks prepares the whole batch before it writes.  If any chunk
\* of the batch does not encode or does not route, PutChunks returns the
\* error of the first such chunk, has issued no bulk-apply and leaves the
\* backing store as it was.
C20_PrepareBeforeWrite ==
    [][(PutReturns /\ Unpreparable(batch)) =>
        /\ putErr' \in {ErrEncode, ErrNoTable}
        /\ putErr' = PrepareError(batch)
        /\ applied' = <<>>
        /\ rows' = rows]_vars

\* The last of three chunks does not encode, the two before it go to two
\* tables: nothing was applied.
C20_Witness ==
    /\ putErr = ErrEncode /\ applied = <<>>
    /\ Len(batch) = 3
    /\ ~Unpreparable(SubSeq(batch, 1, 2))
    /\ Cardinality(TablesOf(SubSeq(batch, 1, 2))) = 2

\* C14: DeleteChunk fails unconditionally.  For every chunk ID and in every
\* state it returns the "method not implemented" error and changes nothing
\* else: no row, no bulk-apply, no other state.
C14_DeleteChunkUnimplemented ==
    /\ [](deleteErr \in {"pending", ErrMethodNotImplemented})
    /\ [][\A id \in ChunkIDs : DeleteChunk(id) =>
            /\ deleteErr' = ErrMethodNotImplemented
            /\ rows' = rows /\ applied' = applied
            /\ UNCHANGED <<objVars, tblVars>>]_vars
    /\ \A id \in ChunkIDs : [](ENABLED DeleteChunk(id))

\* DeleteChunk was called after PutChunks had written rows, and they are
\* still there.
C14_Witness ==
    /\ deleteErr = ErrMethodNotImplemented
    /\ putErr = NoErr /\ rows # <<>>

\* ------------------------------------------------ GetChunks: rows by key
\* The chunk the caller asked for under a row key.
Requested(k) == CHOOSE c \in Range(input) : ExternalKey(c) = k
\* The rows of page p the backing store holds that do not decode into the
\* chunk requested under their key.
Unsound(p) ==
    {k \in RowsFound(rows, pages[p]) :
        Decode(Requested(k), rows[<<pages[p].table, k>>]).err # NoErr}
\* The chunk a sound row decodes to.
Decoded(c) ==
    \E x \in DOMAIN input :
        LET tk == <<ChunkTableFor(input[x].from).table, ExternalKey(input[x])>>
        IN /\ tk \in DOMAIN rows
           /\ Decode(input[x], rows[tk]) = [err |-> NoErr, chunk |-> c]

\* C17: each row is matched to its requested chunk by row key.  In whatever
\* order the rows of a page arrive, a page reports a decode error only for a
\* row that does not decode into the chunk requested under its own key, and
\* a page that read to the end without error has delivered one chunk for
\* every row found; every chunk delivered is the decoding of the row of its
\* own key.  A row with a key nobody requested ends the reading of the page,
\* delivers no chunk and makes the page send one error, the unknown-row
\* error, and no page sends more than one error.
C17_RowsMatchedByKey ==
    /\ [](\A p \in DOMAIN pages :
            /\ processingErr[p] \in {ErrDecode, ErrWrongMetadata} => Unsound(p) # {}
            /\ (ppc[p] # "read" /\ processingErr[p] = NoErr /\ readErr[p] = NoErr)
                  => /\ received[p] = Cardinality(RowsFound(rows, pages[p]))
                     /\ Unsound(p) = {}
            /\ received[p] <= Cardinality(RowsFound(rows, pages[p]) \ Unsound(p))
            /\ processingErr[p] = ErrUnknownRow =>
                  /\ ppc[p] # "read"
                  /\ reported[p] \in {NoErr, ErrUnknownRow}
                  /\ ppc[p] = "done" => reported[p] = ErrUnknownRow)
    /\ [](/\ sentErrs = Cardinality({p \in DOMAIN pages : reported[p] # NoErr})
          /\ \A x \in DOMAIN outs : Decoded(outs[x])
          /\ \A x \in DOMAIN output : Decoded(output[x]))
    /\ [][\A p \in DOMAIN pages :
            /\ ReadStrayRow(p) =>
                  /\ outs' = outs /\ received' = received
                  /\ processingErr'[p] = ErrUnknownRow
                  /\ ppc'[p] = "report"
            /\ (ppc[p] # "read" /\ mpc' # "idle" /\ p \in DOMAIN pages') =>
                  /\ received'[p] = received[p]
                  /\ pending'[p] = pending[p]
                  /\ processingErr'[p] = processingErr[p]]_vars

\* The two rows of a page arrived in the reverse of the order asked for and
\* both chunks were delivered, and another page got a row nobody asked for
\* and sent the unknown-row error.
C17_Witness ==
    /\ \E p \in DOMAIN pages :
          /\ Len(pages[p].keys) = 2 /\ received[p] = 2
          /\ pages[p].keys[1] # pages[p].keys[2]
          /\ \E a, b \in DOMAIN outs :
                /\ a < b
                /\ ExternalKey(outs[a]) = pages[p].keys[2]
                /\ ExternalKey(outs[b]) = pages[p].keys[1]
    /\ \E q \in DOMAIN pages : reported[q] = ErrUnknownRow
    /\ sentErrs = 1

\* ---------------------------------------------------------------- shards
\* The number of shards: the two-hex-character prefixes but 00..0f.
NumShards == 240
Shards == 0..(NumShards - 1)

\* The byte of a hex digit: '0'..'9' and 'a'..'f', as "%02x" prints them.
HexByte(d) == IF d < 10 THEN 48 + d ELSE 87 + d
\* "%02x" of a number below 256.
Hex2(n) == <<HexByte(n \div 16), HexByte(n % 16)>>

\* Mutant: the prefixes are counted from 0f.
ShardPrefixFrom15(s) == Hex2(s + 15)

\* The prefix of a shard: shard 0 is 10.
ShardPrefix(s) == Hex2(s + 16)

\* The lexicographic successor of a prefix: its last byte raised by one.
Successor(prefix) == [prefix EXCEPT ![Len(prefix)] = @ + 1]

\* The row-key range of a shard: [prefix, successor(prefix)).
ShardRange(s) == [lo |-> ShardPrefix(s), hi |-> Successor(ShardPrefix(s))]

\* a < b for row keys, byte by byte.
RECURSIVE LexLess(_, _)
LexLess(a, b) ==
    IF b = <<>> THEN FALSE
    ELSE IF a = <<>> THEN TRUE
    ELSE IF Head(a) # Head(b) THEN Head(a) < Head(b)
    ELSE LexLess(Tail(a), Tail(b))

\* The range scan of [lo, hi) returns the row of this key.
Contains(range, key) == ~LexLess(key, range.lo) /\ LexLess(key, range.hi)

\* The scanner of a shard reads the shard's range.
Scan ==
    /\ scanRange = <<>>
    /\ scanRange' = ShardRange(shard)
    /\ UNCHANGED <<objVars, tblVars, deleteErr, procs, shard, probe>>

\* Row keys: every two-hex-character prefix, alone and followed by the
\* least or the greatest hex digit.
ProbeKeys ==
    {Hex2(n) \o rest : n \in 0..255, rest \in {<<>>, <<HexByte(0)>>, <<HexByte(15)>>}}

InitScan ==
    /\ shard \in Shards
    /\ probe \in ProbeKeys
    /\ scanRange = <<>>
    /\ deleteErr = "pending" /\ procs = <<>>
    /\ rows = <<>> /\ input = <<>> /\ cancelled = FALSE
    /\ batch = <<>> /\ putErr = "pending" /\ applied = <<>>
    /\ ObjIdle
    /\ TblIdle

NextScan == Scan

SpecScan == InitScan /\ [][NextScan]_vars

\* The value of a hex digit byte.
HexValue(b) == IF b < 58 THEN b - 48 ELSE b - 87
\* The number the first two hex characters of a key spell.
PrefixValue(key) == 16 * HexValue(key[1]) + HexValue(key[2])

Callers == {1, 2}
\* Calls a goroutine makes, at most.
MaxCalls == 1

\* A goroutine between calls.  Beside the locals of the call (listing, at,
\* exists, info, output) it records what the call did to the shared cache:
\* whether it found the window expired, whether it replaced the map, the
\* entries it stored and those of them another call has since discarded or
\* overwritten while this call was still running.
Resting(made) ==
    [op |-> "", pc |-> "idle", name |-> "", listing |-> <<>>, at |-> 0,
     exists |-> FALSE, info |-> {}, output |-> <<>>, err |-> NoErr,
     sawExpired |-> FALSE, cleared |-> FALSE, stored |-> {}, lost |-> {},
     made |-> made]

InProgress(c) == procs[c].pc \notin {"idle", "done", "fatal"}

\* Mutant: the client holds a mutex for the length of a call.
mayEnterWithMutex(c) == \A d \in Callers \ {c} : ~InProgress(d)

\* Lines 16-22: the struct has no lock; a call enters whatever the others do.
mayEnter(c) == TRUE

raceFrame == <<objVars, auxVarsButProcs, last, fetchedAt, created, cacheEnabled>>

\* procs after caller c moved to record r and the entries in gone, stored
\* by other running ListTables calls, left the map or were replaced.
Moved(c, r, gone) ==
    [d \in Callers |->
        IF d = c THEN r
        ELSE IF InProgress(d) /\ procs[d].op = "ListTables"
             THEN [procs[d] EXCEPT !.lost = @ \cup (gone \cap procs[d].stored)]
             ELSE procs[d]]

StartListTables(c) ==
    /\ procs[c].pc \in {"idle", "done"} /\ procs[c].made < MaxCalls
    /\ mayEnter(c)
    /\ procs' = [procs EXCEPT ![c] =
                    [Resting(procs[c].made + 1) EXCEPT !.op = "ListTables", !.pc = "tables"]]
    /\ UNCHANGED <<tables, tableInfo, tableExpiration, now, raceFrame>>

\* Line 40-43.
StepTables(c) ==
    /\ procs[c].op = "ListTables" /\ procs[c].pc = "tables"
    /\ \E fail \in BOOLEAN, listing \in Orders(Existing) :
         procs' = [procs EXCEPT ![c] =
                     IF fail THEN [@ EXCEPT !.pc = "done", !.err = ErrTables]
                     ELSE [@ EXCEPT !.pc = "check", !.listing = listing]]
    /\ UNCHANGED <<tables, tableInfo, tableExpiration, now, raceFrame>>

\* Line 45.
StepCheck(c) ==
    /\ procs[c].op = "ListTables" /\ procs[c].pc = "check"
    /\ procs' = [procs EXCEPT ![c] =
                    IF cacheExpired(tableExpiration, now)
                    THEN [@ EXCEPT !.pc = "clear", !.sawExpired = TRUE]
                    ELSE [@ EXCEPT !.pc = "loop", !.at = 1]]
    /\ UNCHANGED <<tables, tableInfo, tableExpiration, now, raceFrame>>

\* Line 46.
StepClear(c) ==
    /\ procs[c].op = "ListTables" /\ procs[c].pc = "clear"
    /\ tableInfo' = <<>>
    /\ procs' = Moved(c, [procs[c] EXCEPT !.pc = "setexp", !.cleared = TRUE],
                      DOMAIN tableInfo)
    /\ UNCHANGED <<tables, tableExpiration, now, raceFrame>>

\* Line 47.
StepSetExpiration(c) ==
    /\ procs[c].op = "ListTables" /\ procs[c].pc = "setexp"
    /\ tableExpiration' = now + TableCacheExpiration
    /\ procs' = [procs EXCEPT ![c] = [@ EXCEPT !.pc = "loop", !.at = 1]]
    /\ UNCHANGED <<tables, tableInfo, now, raceFrame>>

\* Lines 52-53, and 68 after the last table.
StepLookup(c) ==
    /\ procs[c].op = "ListTables" /\ procs[c].pc = "loop"
    /\ procs' = [procs EXCEPT ![c] =
                    IF @.at > Len(@.listing) THEN [@ EXCEPT !.pc = "done"]
                    ELSE LET table == @.listing[@.at]
                         IN [@ EXCEPT !.pc = "fetch",
                                      !.exists = table \in DOMAIN tableInfo,
                                      !.info = IF table \in DOMAIN tableInfo
                                               THEN tableInfo[table] ELSE {}]]
    /\ UNCHANGED <<tables, tableInfo, tableExpiration, now, raceFrame>>

\* Lines 54-59.  The metadata of a table deleted since the listing is an
\* error of Bigtable's.
StepFetch(c) ==
    /\ procs[c].op = "ListTables" /\ procs[c].pc = "fetch"
    /\ LET table == procs[c].listing[procs[c].at]
       IN IF ~procs[c].exists \/ ~cacheEnabled
          THEN \E fail \in BOOLEAN :
                 procs' = [procs EXCEPT ![c] =
                             IF fail \/ ~tables[table].exists
                             THEN [@ EXCEPT !.pc = "done", !.err = ErrTableInfo,
                                            !.output = <<>>]
                             ELSE [@ EXCEPT !.pc = "decide",
                                            !.info = tables[table].families]]
          ELSE procs' = [procs EXCEPT ![c] = [@ EXCEPT !.pc = "decide"]]
    /\ UNCHANGED <<tables, tableInfo, tableExpiration, now, raceFrame>>

\* Lines 61-65.
StepDecide(c) ==
    /\ procs[c].op = "ListTables" /\ procs[c].pc = "decide"
    /\ LET table == procs[c].listing[procs[c].at]
       IN IF hasColumnFamily(procs[c].info)
          THEN /\ procs' = [procs EXCEPT ![c] =
                               [@ EXCEPT !.pc = "loop", !.at = @ + 1,
                                         !.output = Append(@, table)]]
               /\ UNCHANGED tableInfo
          ELSE /\ tableInfo' = [n \in DOMAIN tableInfo \cup {table} |->
                                  IF n = table THEN procs[c].info ELSE tableInfo[n]]
               /\ procs' = Moved(c, [procs[c] EXCEPT !.pc = "loop", !.at = @ + 1,
                                                     !.stored = @ \cup {table},
                                                     !.lost = @ \ {table}],
                                 {table})
    /\ UNCHANGED <<tables, tableExpiration, now, raceFrame>>

StartDeleteTable(c, name) ==
    /\ procs[c].pc \in {"idle", "done"} /\ procs[c].made < MaxCalls
    /\ mayEnter(c)
    /\ procs' = [procs EXCEPT ![c] =
                    [Resting(procs[c].made + 1) EXCEPT !.op = "DeleteTable",
                                                       !.pc = "delete", !.name = name]]
    /\ UNCHANGED <<tables, tableInfo, tableExpiration, now, raceFrame>>

\* Lines 102-104.
StepDelete(c) ==
    /\ procs[c].op = "DeleteTable" /\ procs[c].pc = "delete"
    /\ \E fail \in BOOLEAN :
         IF fail \/ ~tables[procs[c].name].exists
         THEN /\ procs' = [procs EXCEPT ![c] = [@ EXCEPT !.pc = "done",
                                                         !.err = ErrDeleteTable]]
              /\ UNCHANGED tables
         ELSE /\ procs' = [procs EXCEPT ![c] = [@ EXCEPT !.pc = "evict"]]
              /\ tables' = [tables EXCEPT ![procs[c].name] = NoTable]
    /\ UNCHANGED <<tableInfo, tableExpiration, now, raceFrame>>

\* Lines 105-107.
StepEvict(c) ==
    /\ procs[c].op = "DeleteTable" /\ procs[c].pc = "evict"
    /\ tableInfo' = evictOnDelete(tableInfo, procs[c].name, NoErr)
    /\ procs' = Moved(c, [procs[c] EXCEPT !.pc = "done"],
                      {procs[c].name} \cap DOMAIN tableInfo)
    /\ UNCHANGED <<tables, tableExpiration, now, raceFrame>>

\* The next statement of caller c writes the map.
WritesMap(c) ==
    \/ procs[c].pc = "evict"
    \/ procs[c].pc = "decide" /\ ~hasColumnFamily(procs[c].info)
\* The next statement of caller c reads the map.
ReadsMap(c) ==
    procs[c].pc = "loop" /\ procs[c].at <= Len(procs[c].listing)

\* Two goroutines in the map at once, one of them writing: the Go runtime
\* may end the process ("concurrent map writes", "concurrent map read and
\* map write").
MapFault ==
    /\ \E c, d \in Callers :
          c # d /\ WritesMap(c) /\ (WritesMap(d) \/ ReadsMap(d))
    /\ procs' = [c \in Callers |-> [procs[c] EXCEPT !.pc = "fatal"]]
    /\ UNCHANGED <<tables, tableInfo, tableExpiration, now, raceFrame>>

\* Time passes while calls run.
RaceTick ==
    /\ now < MaxNow
    /\ now' = now + 1
    /\ UNCHANGED <<tables, tableInfo, tableExpiration, procs, raceFrame>>

\* The next statement of a running call.
CallStep(c) ==
    \/ StepTables(c) \/ StepCheck(c) \/ StepClear(c) \/ StepSetExpiration(c)
    \/ StepLookup(c) \/ StepFetch(c) \/ StepDecide(c)
    \/ StepDelete(c) \/ StepEvict(c)

InitRace ==
    /\ tables \in [TableNames -> {NoTable, Table({"x"}), Table({columnFamily})}]
    /\ tableInfo = <<>>
    /\ tableExpiration = 0
    /\ fetchedAt = <<>>
    /\ created = {}
    /\ cacheEnabled \in BOOLEAN
    /\ now = 1
    /\ last = NoCall
    /\ procs = [c \in Callers |-> Resting(0)]
    /\ deleteErr = "pending" /\ shard = 0 /\ scanRange = <<>> /\ probe = <<>>
    /\ rows = <<>> /\ input = <<>> /\ cancelled = FALSE
    /\ batch = <<>> /\ putErr = "pending" /\ applied = <<>>
    /\ ObjIdle

NextRace ==
    \/ \E c \in Callers : StartListTables(c)
    \/ \E c \in Callers : StepTables(c)
    \/ \E c \in Callers : StepCheck(c)
    \/ \E c \in Callers : StepClear(c)
    \/ \E c \in Callers : StepSetExpiration(c)
    \/ \E c \in Callers : StepLookup(c)
    \/ \E c \in Callers : StepFetch(c)
    \/ \E c \in Callers : StepDecide(c)
    \/ \E c \in Callers, n \in TableNames : StartDeleteTable(c, n)
    \/ \E c \in Callers : StepDelete(c)
    \/ \E c \in Callers : StepEvict(c)
    \/ MapFault
    \/ RaceTick

SpecRace == InitRace /\ [][NextRace]_vars

\* C18: the cache is read, cleared and repopulated with no mutual exclusion.
\* Whatever statement the other goroutine is at, a goroutine between calls
\* can enter ListTables or DeleteTable and a running call can take its next
\* statement: no call ever waits for another inside these steps.
C18_NoMutualExclusion ==
    \A c \in Callers :
        /\ (procs[c].pc = "idle" /\ procs[c].made < MaxCalls) =>
              /\ ENABLED StartListTables(c)
              /\ \A n \in TableNames : ENABLED StartDeleteTable(c, n)
        /\ InProgress(c) => ENABLED CallStep(c)

\* Two ListTables calls both found the window expired and both replaced the
\* map, and the entry one of them had stored was discarded by the other
\* while the first was still iterating.
C18_Witness ==
    \E c, d \in Callers :
        /\ c # d
        /\ procs[c].op = "ListTables" /\ procs[d].op = "ListTables"
        /\ procs[c].sawExpired /\ procs[d].sawExpired
        /\ procs[c].cleared /\ procs[d].cleared
        /\ InProgress(c) /\ InProgress(d)
        /\ procs[c].lost # {}
        /\ procs[c].lost \cap DOMAIN tableInfo = {}
====
